---- MODULE Spec2Model ----
(***************************************************************************)
(* BitArray (src/src/lib.rs): a fixed-capacity bit set packed into u32     *)
(* atoms, with an incrementally maintained count of the bits set.          *)
(*                                                                         *)
(* A u32 atom is represented by the set of its bit positions that are 1    *)
(* (a subset of 0..31): `a & b` is intersection, `a | b` union, `!a` the   *)
(* complement in 0..31, `1 << n` the singleton {n}, u32::MAX the full set  *)
(* and 0 the empty set.  The width of the atom is the source's 32.         *)
(***************************************************************************)
EXTENDS Integers, Naturals, Sequences, FiniteSets, TLC

VARIABLES array, bit_count, number_of_bits_set, overflow_checks, last, ret

vars == <<array, bit_count, number_of_bits_set, overflow_checks, last, ret>>

(* ---------------------------------------------------------------------- *)
(* Program constants and the bounds of the exploration                     *)
(* ---------------------------------------------------------------------- *)

BIT_ARRAY_BITS_IN_ATOM == 32

\* Width of usize on the modelled target (Rust's narrowest pointer width).
USIZE_BITS == 16

\* Capacities 1..MaxSmall are explored with every index.
MaxSmall == 2

\* Capacities around 1..MaxAtoms whole atoms are explored at the atom borders.
MaxAtoms == 1

USIZE_MAX == 2 ^ USIZE_BITS - 1

Bits == 0 .. (BIT_ARRAY_BITS_IN_ATOM - 1)

U32_MAX == Bits

\* new(bit_count) is called with these capacities.
BitCounts ==
    (1 .. MaxSmall)
        \cup { k * BIT_ARRAY_BITS_IN_ATOM + d : k \in 1 .. MaxAtoms, d \in {-1, 0, 1} }

\* Indices the callers pass that can be inside the capacity.
ProbeIndices ==
    (0 .. (MaxSmall - 1))
        \cup { k * BIT_ARRAY_BITS_IN_ATOM + d : k \in 1 .. MaxAtoms, d \in {-1, 0} }

(* ---------------------------------------------------------------------- *)
(* Helpers: integer and atom arithmetic                                    *)
(* ---------------------------------------------------------------------- *)

div_ceil(a, b) == (a + b - 1) \div b

Min(S) == CHOOSE x \in S : \A y \in S : x <= y

\* result <<= 1 on a u32: the top bit is shifted out.
Shl1(atom) == { b + 1 : b \in atom } \cap Bits

\* atom >> n on a u32.
Shr(atom, n) == { b - n : b \in atom } \cap Bits

None == [some |-> FALSE, val |-> 0]

Some(v) == [some |-> TRUE, val |-> v]

Ok == [kind |-> "ok", bit |-> FALSE, atom |-> {}]

OkBit(b) == [kind |-> "ok", bit |-> b, atom |-> {}]

OkAtom(a) == [kind |-> "ok", bit |-> FALSE, atom |-> a]

Panic == [kind |-> "panic", bit |-> FALSE, atom |-> {}]

Call(op, index, set) == [op |-> op, index |-> index, set |-> set]

panicked == ret.kind = "panic"

(* ---------------------------------------------------------------------- *)
(* BitArray                                                                *)
(* ---------------------------------------------------------------------- *)

\* new() rounding the atom count by "divide, then add one".
new_array_div_plus_one(n) == [i \in 1 .. (n \div BIT_ARRAY_BITS_IN_ATOM + 1) |-> {}]

new_array(n) == [i \in 1 .. div_ceil(n, BIT_ARRAY_BITS_IN_ATOM) |-> {}]

\* self.array[array_index], array_index counted from 0 as in the source.
atom_at(array_index) == array[array_index + 1]

\* The slice bounds check of self.array[array_index].
in_vec(array_index) == array_index < Len(array)

\* get() shifting by the whole index instead of the index within the atom.
get_shift_by_index(index) ==
    IF ~(index < bit_count)
    THEN Panic
    ELSE LET array_index == index \div BIT_ARRAY_BITS_IN_ATOM
         IN  IF ~in_vec(array_index)
             THEN Panic
             ELSE OkBit((Shr(atom_at(array_index), index) \cap {0}) # {})

get(index) ==
    IF ~(index < bit_count)
    THEN Panic
    ELSE LET array_index == index \div BIT_ARRAY_BITS_IN_ATOM
             bit_index == index % BIT_ARRAY_BITS_IN_ATOM
         IN  IF ~in_vec(array_index)
             THEN Panic
             ELSE OkBit((Shr(atom_at(array_index), bit_index) \cap {0}) # {})

Index_index(index) ==
    LET r == get(index)
    IN  IF r.kind = "panic" THEN Panic
        ELSE IF r.bit THEN OkBit(TRUE) ELSE OkBit(FALSE)

count_set_bits == number_of_bits_set

\* all_set() comparing the count with the allocated capacity.
all_set_of_storage == Len(array) * BIT_ARRAY_BITS_IN_ATOM = number_of_bits_set

all_set == bit_count = number_of_bits_set

RECURSIVE first_unset_from(_)
first_unset_from(i) ==
    IF i >= Len(array)
    THEN None
    ELSE LET atom == atom_at(i)
         IN  IF atom # U32_MAX
             THEN LET found == { bit \in Bits : atom \cap {bit} = {} }
                  IN  IF found = {}
                      THEN None
                      ELSE Some(i * BIT_ARRAY_BITS_IN_ATOM + Min(found))
             ELSE first_unset_from(i + 1)

first_unset_bit == first_unset_from(0)

\* first_set_bit() returning the position inside the atom, without the atom's base.
RECURSIVE first_set_from_no_base(_)
first_set_from_no_base(i) ==
    IF i >= Len(array)
    THEN None
    ELSE LET atom == atom_at(i)
         IN  IF atom # {}
             THEN LET found == { bit \in Bits : atom \cap {bit} # {} }
                  IN  IF found = {} THEN None ELSE Some(Min(found))
             ELSE first_set_from_no_base(i + 1)

RECURSIVE first_set_from(_)
first_set_from(i) ==
    IF i >= Len(array)
    THEN None
    ELSE LET atom == atom_at(i)
         IN  IF atom # {}
             THEN LET found == { bit \in Bits : atom \cap {bit} # {} }
                  IN  IF found = {}
                      THEN None
                      ELSE Some(i * BIT_ARRAY_BITS_IN_ATOM + Min(found))
             ELSE first_set_from(i + 1)

first_set_bit == first_set_from(0)

\* usize addition and subtraction as a build without overflow checks does them.
wrapping(n) == n % (USIZE_MAX + 1)

RECURSIVE atom_loop(_, _, _)
atom_loop(from_index, i, result) ==
    IF i = BIT_ARRAY_BITS_IN_ATOM
    THEN result
    ELSE LET index == wrapping(wrapping(from_index + (BIT_ARRAY_BITS_IN_ATOM - 1)) - i)
             shifted == Shl1(result)
         IN  atom_loop(from_index, i + 1,
                       IF index < bit_count
                       THEN shifted \cup (IF get(index).bit THEN {0} ELSE {})
                       ELSE shifted)

\* With overflow checks (debug profile) from_index + 31 panics when it leaves
\* usize; without them (release profile) it wraps.
atom_from_index(from_index) ==
    IF overflow_checks /\ from_index + (BIT_ARRAY_BITS_IN_ATOM - 1) > USIZE_MAX
    THEN Panic
    ELSE OkAtom(atom_loop(from_index, 0, {}))

Init ==
    /\ bit_count \in BitCounts
    /\ array = new_array(bit_count)
    /\ number_of_bits_set = 0
    /\ overflow_checks \in BOOLEAN
    /\ last = Call("new", bit_count, FALSE)
    /\ ret = Ok

\* reset() forgetting the counter.
reset_keeps_count ==
    /\ ~panicked
    /\ array' = [i \in 1 .. Len(array) |-> {}]
    /\ last' = Call("reset", 0, FALSE)
    /\ ret' = Ok
    /\ UNCHANGED <<bit_count, number_of_bits_set, overflow_checks>>

reset ==
    /\ ~panicked
    /\ array' = [i \in 1 .. Len(array) |-> {}]
    /\ number_of_bits_set' = 0
    /\ last' = Call("reset", 0, FALSE)
    /\ ret' = Ok
    /\ UNCHANGED <<bit_count, overflow_checks>>

\* set() without its assert: only the slice bounds check is left.
set_unchecked(index) ==
    /\ ~panicked
    /\ last' = Call("set", index, TRUE)
    /\ UNCHANGED <<bit_count, overflow_checks>>
    /\ LET array_index == index \div BIT_ARRAY_BITS_IN_ATOM
           bit_index == index % BIT_ARRAY_BITS_IN_ATOM
           mask == {bit_index}
       IN  IF ~in_vec(array_index)
           THEN ret' = Panic /\ UNCHANGED <<array, number_of_bits_set>>
           ELSE /\ number_of_bits_set' =
                       IF atom_at(array_index) \cap mask = {}
                       THEN number_of_bits_set + 1
                       ELSE number_of_bits_set
                /\ array' = [array EXCEPT ![array_index + 1] = @ \cup mask]
                /\ ret' = Ok

\* set() counting every call, whether or not the bit was clear.
set_always_counts(index) ==
    /\ ~panicked
    /\ last' = Call("set", index, TRUE)
    /\ UNCHANGED <<bit_count, overflow_checks>>
    /\ IF ~(index < bit_count)
       THEN ret' = Panic /\ UNCHANGED <<array, number_of_bits_set>>
       ELSE LET array_index == index \div BIT_ARRAY_BITS_IN_ATOM
                bit_index == index % BIT_ARRAY_BITS_IN_ATOM
                mask == {bit_index}
            IN  IF ~in_vec(array_index)
                THEN ret' = Panic /\ UNCHANGED <<array, number_of_bits_set>>
                ELSE /\ number_of_bits_set' = number_of_bits_set + 1
                     /\ array' = [array EXCEPT ![array_index + 1] = @ \cup mask]
                     /\ ret' = Ok

set(index) ==
    /\ ~panicked
    /\ last' = Call("set", index, TRUE)
    /\ UNCHANGED <<bit_count, overflow_checks>>
    /\ IF ~(index < bit_count)
       THEN ret' = Panic /\ UNCHANGED <<array, number_of_bits_set>>
       ELSE LET array_index == index \div BIT_ARRAY_BITS_IN_ATOM
                bit_index == index % BIT_ARRAY_BITS_IN_ATOM
                mask == {bit_index}
            IN  IF ~in_vec(array_index)
                THEN ret' = Panic /\ UNCHANGED <<array, number_of_bits_set>>
                ELSE /\ number_of_bits_set' =
                            IF atom_at(array_index) \cap mask = {}
                            THEN number_of_bits_set + 1
                            ELSE number_of_bits_set
                     /\ array' = [array EXCEPT ![array_index + 1] = @ \cup mask]
                     /\ ret' = Ok

\* unset() with `&= mask` in place of `&= !mask`.
unset_and_mask(index) ==
    /\ ~panicked
    /\ last' = Call("unset", index, FALSE)
    /\ UNCHANGED <<bit_count, overflow_checks>>
    /\ IF ~(index < bit_count)
       THEN ret' = Panic /\ UNCHANGED <<array, number_of_bits_set>>
       ELSE LET array_index == index \div BIT_ARRAY_BITS_IN_ATOM
                bit_index == index % BIT_ARRAY_BITS_IN_ATOM
                mask == {bit_index}
            IN  IF ~in_vec(array_index)
                THEN ret' = Panic /\ UNCHANGED <<array, number_of_bits_set>>
                ELSE /\ number_of_bits_set' =
                            IF atom_at(array_index) \cap mask # {}
                            THEN number_of_bits_set - 1
                            ELSE number_of_bits_set
                     /\ array' = [array EXCEPT ![array_index + 1] = @ \cap mask]
                     /\ ret' = Ok

unset(index) ==
    /\ ~panicked
    /\ last' = Call("unset", index, FALSE)
    /\ UNCHANGED <<bit_count, overflow_checks>>
    /\ IF ~(index < bit_count)
       THEN ret' = Panic /\ UNCHANGED <<array, number_of_bits_set>>
       ELSE LET array_index == index \div BIT_ARRAY_BITS_IN_ATOM
                bit_index == index % BIT_ARRAY_BITS_IN_ATOM
                mask == {bit_index}
            IN  IF ~in_vec(array_index)
                THEN ret' = Panic /\ UNCHANGED <<array, number_of_bits_set>>
                ELSE /\ number_of_bits_set' =
                            IF atom_at(array_index) \cap mask # {}
                            THEN number_of_bits_set - 1
                            ELSE number_of_bits_set
                     /\ array' = [array EXCEPT ![array_index + 1] = @ \cap (Bits \ mask)]
                     /\ ret' = Ok

set_bit(index, value) ==
    /\ ~panicked
    /\ last' = Call("set_bit", index, value)
    /\ UNCHANGED <<bit_count, overflow_checks>>
    /\ IF ~(index < bit_count)
       THEN ret' = Panic /\ UNCHANGED <<array, number_of_bits_set>>
       ELSE LET array_index == index \div BIT_ARRAY_BITS_IN_ATOM
                bit_index == index % BIT_ARRAY_BITS_IN_ATOM
                mask == {bit_index}
            IN  IF ~in_vec(array_index)
                THEN ret' = Panic /\ UNCHANGED <<array, number_of_bits_set>>
                ELSE /\ ret' = Ok
                     /\ IF value
                        THEN /\ number_of_bits_set' =
                                    IF atom_at(array_index) \cap mask = {}
                                    THEN number_of_bits_set + 1
                                    ELSE number_of_bits_set
                             /\ array' = [array EXCEPT ![array_index + 1] = @ \cup mask]
                        ELSE /\ number_of_bits_set' =
                                    IF atom_at(array_index) \cap mask # {}
                                    THEN number_of_bits_set - 1
                                    ELSE number_of_bits_set
                             /\ array' = [array EXCEPT
                                            ![array_index + 1] = @ \cap (Bits \ mask)]

\* A caller reads one bit.
call_get(index) ==
    /\ ~panicked
    /\ last' = Call("get", index, FALSE)
    /\ ret' = get(index)
    /\ UNCHANGED <<array, bit_count, number_of_bits_set, overflow_checks>>

\* A caller reads a 32-bit window.
call_atom_from_index(from_index) ==
    /\ ~panicked
    /\ last' = Call("atom_from_index", from_index, FALSE)
    /\ ret' = atom_from_index(from_index)
    /\ UNCHANGED <<array, bit_count, number_of_bits_set, overflow_checks>>

\* Indices passed to get, set, unset and set_bit: inside the capacity, the
\* first one past it, the last one of the allocated storage, the first one
\* past the storage, and the largest usize.
IndexInputs ==
    ProbeIndices
        \cup { bit_count,
               Len(array) * BIT_ARRAY_BITS_IN_ATOM - 1,
               Len(array) * BIT_ARRAY_BITS_IN_ATOM,
               USIZE_MAX }

\* Window starts passed to atom_from_index: aligned and unaligned, reaching
\* past the capacity, and the ones whose window leaves usize.
FromIndexInputs ==
    { 0, 1, BIT_ARRAY_BITS_IN_ATOM - 1, BIT_ARRAY_BITS_IN_ATOM,
      bit_count - 1, bit_count,
      USIZE_MAX - BIT_ARRAY_BITS_IN_ATOM, USIZE_MAX - (BIT_ARRAY_BITS_IN_ATOM - 1),
      USIZE_MAX }

Next ==
    \/ reset
    \/ \E index \in IndexInputs : set(index)
    \/ \E index \in IndexInputs : unset(index)
    \/ \E index \in IndexInputs, value \in BOOLEAN : set_bit(index, value)
    \/ \E index \in IndexInputs : call_get(index)
    \/ \E from_index \in FromIndexInputs : call_atom_from_index(from_index)

Spec == Init /\ [][Next]_vars

(* ---------------------------------------------------------------------- *)
(* Properties                                                              *)
(* ---------------------------------------------------------------------- *)

ValidIndices == 0 .. (bit_count - 1)

SetIndices == { i \in ValidIndices : get(i) = OkBit(TRUE) }

UnsetIndices == { i \in ValidIndices : get(i) = OkBit(FALSE) }

Mutators == {"set", "unset", "set_bit"}

\* C1: after any sequence of set, unset, set_bit and reset calls,
\* count_set_bits() is the number of indices below bit_count whose get() is true.
C1_CountMatchesBits == count_set_bits = Cardinality(SetIndices)

C1_Witness ==
    /\ last.op = "unset"
    /\ ret = Ok
    /\ Len(array) = 2
    /\ number_of_bits_set >= 2
    /\ atom_at(1) # {}

\* C2: first_unset_bit() is Some(m) for the smallest m below bit_count whose
\* get() is false, and None when every index below bit_count is set.
C2_FirstUnsetBit ==
    first_unset_bit = (IF UnsetIndices = {} THEN None ELSE Some(Min(UnsetIndices)))

\* C3: first_set_bit() is Some(m) for the smallest m below bit_count whose get()
\* is true, and None exactly when count_set_bits() is 0.
C3_FirstSetBit ==
    /\ first_set_bit = (IF SetIndices = {} THEN None ELSE Some(Min(SetIndices)))
    /\ (first_set_bit = None) <=> (count_set_bits = 0)

C3_Witness ==
    /\ first_set_bit = Some(BIT_ARRAY_BITS_IN_ATOM)
    /\ atom_at(0) = {}
    /\ last.op = "unset"
    /\ ret = Ok

\* C4: atom_from_index(k) returns, for any usize k and without failing, the word
\* whose bit b is get(k+b) if k+b < bit_count and 0 otherwise.
C4_AtomFromIndex ==
    last.op = "atom_from_index" =>
        /\ ret.kind = "ok"
        /\ \A b \in Bits :
              (b \in ret.atom) <=>
                  (last.index + b < bit_count /\ get(last.index + b) = OkBit(TRUE))

\* The window is the claimed one whenever from_index + 31 fits in usize.
AtomFromIndexInRange ==
    (last.op = "atom_from_index"
        /\ last.index + (BIT_ARRAY_BITS_IN_ATOM - 1) <= USIZE_MAX)
        => C4_AtomFromIndex

\* The call a build without overflow checks answers with bit 0 of the array
\* as bit 1 of the window that starts at the largest usize.
AtomFromIndexWrapped ==
    /\ last = Call("atom_from_index", USIZE_MAX, FALSE)
    /\ ~overflow_checks
    /\ ret = OkAtom({1})

\* C5: all_set() is true iff count_set_bits() = bit_count(), which is exactly
\* when get(i) is true for every i below bit_count; a new or reset BitArray is
\* never all_set.
C5_AllSet ==
    /\ all_set <=> (count_set_bits = bit_count)
    /\ all_set <=> (\A i \in ValidIndices : get(i) = OkBit(TRUE))
    /\ last.op \in {"new", "reset"} => ~all_set

C5_Witness ==
    /\ all_set
    /\ bit_count > 1
    /\ last.op = "set_bit"
    /\ ret = Ok

\* C6: get, set, unset and set_bit called with an index >= bit_count() panic
\* and leave every atom and the counter as they were.
C6_OutOfBoundsPanics ==
    [][(last'.op \in Mutators \cup {"get"} /\ last'.index >= bit_count)
          => (ret' = Panic /\ UNCHANGED <<array, number_of_bits_set, bit_count>>)]_vars

C6_Witness ==
    /\ last.op = "set"
    /\ last.index = bit_count
    /\ last.index < Len(array) * BIT_ARRAY_BITS_IN_ATOM
    /\ ret = Panic
    /\ number_of_bits_set > 0

\* C7: reset() gives the state new() gives for the same capacity: the counter is
\* 0, every get(i) is false, first_set_bit() is None, bit_count() is unchanged.
C7_ResetIsFresh ==
    [][last'.op = "reset"
          => /\ bit_count' = bit_count
             /\ array' = new_array(bit_count)
             /\ count_set_bits' = 0
             /\ first_set_bit' = None
             /\ \A i \in ValidIndices : get(i)' = OkBit(FALSE)]_vars

C7_Witness ==
    /\ last.op = "reset"
    /\ ret = Ok
    /\ Len(array) = 2
    /\ SetIndices = {}
    /\ number_of_bits_set = 0

\* C8: for a valid index, get() after set() is true, after unset() false and
\* after set_bit(i, v) it is v; array[i] is the boolean get(i) returns.
C8_ReadBack ==
    /\ (last.op \in Mutators /\ last.index < bit_count)
          => (ret = Ok /\ get(last.index) = OkBit(last.set))
    /\ \A i \in ValidIndices : Index_index(i) = get(i) /\ get(i).kind = "ok"

C8_Witness ==
    /\ last = Call("set_bit", BIT_ARRAY_BITS_IN_ATOM, FALSE)
    /\ ret = Ok
    /\ number_of_bits_set > 0

\* C9: the storage holds ceil(bit_count / 32) atoms, and every bit of the last
\* atom at a position >= bit_count is 0.
C9_Storage ==
    /\ Len(array) * BIT_ARRAY_BITS_IN_ATOM >= bit_count
    /\ (Len(array) - 1) * BIT_ARRAY_BITS_IN_ATOM < bit_count
    /\ \A i \in 1 .. Len(array) : \A b \in array[i] :
          (i - 1) * BIT_ARRAY_BITS_IN_ATOM + b < bit_count

C9_Witness ==
    /\ bit_count % BIT_ARRAY_BITS_IN_ATOM # 0
    /\ array[Len(array)] # {}
    /\ last.op = "set_bit"
    /\ last.index = bit_count
    /\ ret = Panic

\* C10: a successful set, unset or set_bit on index i leaves get(j) for every
\* other j and bit_count() unchanged and moves count_set_bits() by +1, -1 or 0
\* according to whether bit i flipped; repeating the call changes nothing.
C10_Frame ==
    [][(last'.op \in Mutators /\ ret' = Ok)
          => /\ \A j \in ValidIndices \ {last'.index} : get(j)' = get(j)
             /\ bit_count' = bit_count
             /\ count_set_bits' - count_set_bits =
                    (IF get(last'.index) = OkBit(last'.set) THEN 0
                     ELSE IF last'.set THEN 1 ELSE -1)
             /\ (last' = last /\ ret = Ok)
                    => UNCHANGED <<array, number_of_bits_set>>]_vars

C10_Witness ==
    /\ last.op = "unset"
    /\ last.index = BIT_ARRAY_BITS_IN_ATOM
    /\ ret = Ok
    /\ get(0) = OkBit(TRUE)
    /\ get(BIT_ARRAY_BITS_IN_ATOM - 1) = OkBit(TRUE)

====
